---- MODULE Spec2Model ----
(***************************************************************************)
(* A model of src/src/main.rs: a thread-per-connection HTTP/1.1 server.    *)
(*                                                                         *)
(* Byte strings (what travels on a socket, what a file holds) and Rust     *)
(* Strings are TLA+ strings, one character per byte.  The wire alphabet is *)
(* ASCII plus one byte that is no valid UTF-8, written XFF below.          *)
(***************************************************************************)
EXTENDS Integers, Sequences, FiniteSets, TLC

(***************************************************************************)
(* Bytes and strings                                                       *)
(***************************************************************************)

\* The byte 0xFF (never valid in UTF-8), as one character of the model.
XFF == "~"

\* U+FFFD REPLACEMENT CHARACTER in UTF-8 is the three bytes EF BF BD; three
\* characters stand for them.
U_FFFD == "{?}"

Char(s, i) == SubSeq(s, i, i)

\* s[i..] (1-based, to the end)
From(s, i) == SubSeq(s, i, Len(s))

\* char::is_whitespace on the model's alphabet
is_whitespace(ch) == ch \in {" ", "\t", "\r", "\n"}

\* str::trim_end
RECURSIVE trim_end(_)
trim_end(s) ==
    IF Len(s) > 0 /\ is_whitespace(Char(s, Len(s)))
    THEN trim_end(SubSeq(s, 1, Len(s) - 1))
    ELSE s

\* Index of the first occurrence of pat in s at or after position i, 0 if none.
RECURSIVE find_from(_, _, _)
find_from(s, pat, i) ==
    IF i + Len(pat) - 1 > Len(s) THEN 0
    ELSE IF SubSeq(s, i, i + Len(pat) - 1) = pat THEN i
    ELSE find_from(s, pat, i + 1)

find(s, pat) == find_from(s, pat, 1)

\* str::split_whitespace: the maximal runs of non-whitespace, in order.
RECURSIVE split_whitespace_from(_, _, _)
split_whitespace_from(s, i, cur) ==
    IF i > Len(s) THEN (IF cur = "" THEN << >> ELSE <<cur>>)
    ELSE IF is_whitespace(Char(s, i))
         THEN (IF cur = "" THEN << >> ELSE <<cur>>) \o split_whitespace_from(s, i + 1, "")
         ELSE split_whitespace_from(s, i + 1, cur \o Char(s, i))

split_whitespace(s) == split_whitespace_from(s, 1, "")

\* str::split(sep) for a one-character separator: every piece, empty ones too.
RECURSIVE split_from(_, _, _, _)
split_from(s, sep, i, cur) ==
    IF i > Len(s) THEN <<cur>>
    ELSE IF Char(s, i) = sep
         THEN <<cur>> \o split_from(s, sep, i + 1, "")
         ELSE split_from(s, sep, i + 1, cur \o Char(s, i))

split(s, sep) == split_from(s, sep, 1, "")

\* The filter with a slip: nothing is filtered out.
keep_all(q) == q

\* Iterator::filter(|s| !s.is_empty())
RECURSIVE filter_non_empty(_)
filter_non_empty(q) ==
    IF q = << >> THEN << >>
    ELSE (IF Head(q) = "" THEN << >> ELSE <<Head(q)>>) \o filter_non_empty(Tail(q))

\* str::split_once(pat): <<before, after>> at the first occurrence, or << >>.
split_once(s, pat) ==
    LET i == find(s, pat)
    IN  IF i = 0 THEN << >>
        ELSE <<SubSeq(s, 1, i - 1), From(s, i + Len(pat))>>

\* u8::to_ascii_lowercase
to_ascii_lowercase(ch) ==
    CASE ch = "A" -> "a" [] ch = "B" -> "b" [] ch = "C" -> "c" [] ch = "D" -> "d"
      [] ch = "E" -> "e" [] ch = "F" -> "f" [] ch = "G" -> "g" [] ch = "H" -> "h"
      [] ch = "I" -> "i" [] ch = "J" -> "j" [] ch = "K" -> "k" [] ch = "L" -> "l"
      [] ch = "M" -> "m" [] ch = "N" -> "n" [] ch = "O" -> "o" [] ch = "P" -> "p"
      [] ch = "Q" -> "q" [] ch = "R" -> "r" [] ch = "S" -> "s" [] ch = "T" -> "t"
      [] ch = "U" -> "u" [] ch = "V" -> "v" [] ch = "W" -> "w" [] ch = "X" -> "x"
      [] ch = "Y" -> "y" [] ch = "Z" -> "z" [] OTHER -> ch

\* str::eq_ignore_ascii_case
eq_ignore_ascii_case(a, b) ==
    /\ Len(a) = Len(b)
    /\ \A i \in 1..Len(a) : to_ascii_lowercase(Char(a, i)) = to_ascii_lowercase(Char(b, i))

\* std::str::from_utf8 succeeds
is_utf8(s) == \A i \in 1..Len(s) : Char(s, i) # XFF

\* String::from_utf8_lossy: every invalid byte becomes U+FFFD.
RECURSIVE from_utf8_lossy(_)
from_utf8_lossy(s) ==
    IF Len(s) = 0 THEN ""
    ELSE (IF Char(s, 1) = XFF THEN U_FFFD ELSE Char(s, 1)) \o from_utf8_lossy(From(s, 2))

(***************************************************************************)
(* usize, as normalised decimal strings (TLC's integers are narrower than  *)
(* 64 bits; only small values are ever turned into integers)               *)
(***************************************************************************)

\* usize::MAX and isize::MAX on a 64-bit target
USIZE_MAX == "18446744073709551615"
ISIZE_MAX == "9223372036854775807"

\* The size of a user address space (2^47 bytes): no allocation of that many
\* bytes can succeed.
ADDRESS_SPACE == "140737488355328"

is_digit(ch) == ch \in {"0", "1", "2", "3", "4", "5", "6", "7", "8", "9"}

digit_value(ch) ==
    CASE ch = "0" -> 0 [] ch = "1" -> 1 [] ch = "2" -> 2 [] ch = "3" -> 3
      [] ch = "4" -> 4 [] ch = "5" -> 5 [] ch = "6" -> 6 [] ch = "7" -> 7
      [] ch = "8" -> 8 [] ch = "9" -> 9

RECURSIVE all_digits(_)
all_digits(s) ==
    IF Len(s) = 0 THEN TRUE
    ELSE is_digit(Char(s, 1)) /\ all_digits(From(s, 2))

RECURSIVE strip_zeros(_)
strip_zeros(s) ==
    IF Len(s) > 1 /\ Char(s, 1) = "0" THEN strip_zeros(From(s, 2)) ELSE s

\* a <= b for two normalised decimal strings
RECURSIVE dec_le(_, _)
dec_le(a, b) ==
    IF Len(a) # Len(b) THEN Len(a) < Len(b)
    ELSE IF Len(a) = 0 THEN TRUE
    ELSE IF Char(a, 1) # Char(b, 1)
         THEN digit_value(Char(a, 1)) < digit_value(Char(b, 1))
         ELSE dec_le(From(a, 2), From(b, 2))

\* Decimal strings of at most nine digits are turned into integers.
is_small(z) == Len(z) <= 9

RECURSIVE to_int_acc(_, _)
to_int_acc(z, acc) ==
    IF Len(z) = 0 THEN acc
    ELSE to_int_acc(From(z, 2), 10 * acc + digit_value(Char(z, 1)))

to_int(z) == to_int_acc(z, 0)

\* usize::to_string
RECURSIVE to_string(_)
to_string(n) ==
    LET d == <<"0", "1", "2", "3", "4", "5", "6", "7", "8", "9">>
    IN  IF n < 10 THEN d[n + 1] ELSE to_string(n \div 10) \o d[(n % 10) + 1]

\* str::parse::<usize>(): an optional '+', then one or more digits, and no
\* overflow.  Ok(n) is <<n>> with n a normalised decimal string, Err is << >>.
parse_usize(s) ==
    LET d == IF Len(s) > 0 /\ Char(s, 1) = "+" THEN From(s, 2) ELSE s
    IN  IF Len(d) = 0 \/ ~all_digits(d) THEN << >>
        ELSE IF dec_le(strip_zeros(d), USIZE_MAX) THEN <<strip_zeros(d)>>
        ELSE << >>

(***************************************************************************)
(* HashMap<String, String>: a function from the keys present to values     *)
(***************************************************************************)

HashMap_new == [k \in {} |-> ""]

\* HashMap::insert: a key that is present gets the new value
insert(h, key, value) ==
    [k \in (DOMAIN h) \cup {key} |-> IF k = key THEN value ELSE h[k]]

\* HashMap::get(key): exact match of the key.  Some(v) is <<v>>, None is << >>.
get(h, key) == IF key \in DOMAIN h THEN <<h[key]>> ELSE << >>

\* h.iter().find(|(k, _)| k.eq_ignore_ascii_case(name)): iteration order of
\* a HashMap is arbitrary, so the entry found is any of the matching ones.
\* The set of values find may yield; empty when no key matches.
find_ignore_case(h, name) ==
    {h[k] : k \in {j \in DOMAIN h : eq_ignore_ascii_case(j, name)}}

(***************************************************************************)
(* Request::from_stream, as a function of the bytes its BufReader has      *)
(* taken from the socket so far (buf) and of whether a read returned 0     *)
(***************************************************************************)

\* BufRead::read_line on buf: "more" when no newline has arrived and the
\* stream has not ended; "err" on invalid UTF-8; else the line (with its
\* newline, or what was left at end of stream) and the bytes after it.
read_line(buf, eof) ==
    LET i == find(buf, "\n")
        line == IF i > 0 THEN SubSeq(buf, 1, i) ELSE buf
        rest == IF i > 0 THEN From(buf, i + 1) ELSE ""
    IN  IF i = 0 /\ ~eof THEN [st |-> "more"]
        ELSE IF ~is_utf8(line) THEN [st |-> "err"]
        ELSE [st |-> "ok", line |-> line, rest |-> rest]

\* The header loop (lines 40-51).  It is left at the break of line 45 (ended
\* is "blank") or when read_line returns 0 at end of stream (ended is "eof").
RECURSIVE read_headers(_, _, _)
read_headers(buf, eof, headers) ==
    LET r == read_line(buf, eof)
    IN  IF r.st = "more" THEN [st |-> "more"]
        ELSE IF r.st = "err" THEN [st |-> "none"]
        ELSE IF Len(r.line) = 0
             THEN [st |-> "ok", headers |-> headers, rest |-> r.rest, ended |-> "eof"]
        ELSE LET trimmed == trim_end(r.line)
                 kv == split_once(trimmed, ": ")
             IN  IF trimmed = ""
                 THEN [st |-> "ok", headers |-> headers, rest |-> r.rest, ended |-> "blank"]
                 ELSE read_headers(r.rest, eof,
                        IF kv = << >> THEN headers ELSE insert(headers, kv[1], kv[2]))

\* Lines 24-51: the start line and the header block.
read_head(buf, eof) ==
    LET r == read_line(buf, eof)
    IN  IF r.st = "more" THEN [st |-> "more"]
        ELSE IF r.st = "err" THEN [st |-> "none"]
        ELSE LET parts == split_whitespace(trim_end(r.line))
             IN  IF Len(parts) < 3 THEN [st |-> "none"]
                 ELSE LET h == read_headers(r.rest, eof, HashMap_new)
                      IN  IF h.st # "ok" THEN h
                          ELSE [st |-> "ok",
                                method |-> parts[1],
                                path |-> filter_non_empty(split(parts[2], "/")),
                                version |-> parts[3],
                                headers |-> h.headers,
                                rest |-> h.rest,
                                ended |-> h.ended]

\* Lines 54-58: the values content_length can take for a header map.
content_lengths(headers) ==
    LET found == find_ignore_case(headers, "Content-Length")
    IN  IF found = {} THEN {"0"}
        ELSE {IF parse_usize(v) = << >> THEN "0" ELSE parse_usize(v)[1] : v \in found}

(***************************************************************************)
(* Response                                                                *)
(***************************************************************************)

\* Response::new with a slip: Content-Length is written as 0 whatever the body.
Response_new_zero_length(status_code, body) ==
    [status_code |-> status_code,
     body |-> body,
     headers |-> insert(insert(HashMap_new, "Content-Type", "text/plain"),
                        "Content-Length", "0")]

\* Response::new
Response_new(status_code, body) ==
    [status_code |-> status_code,
     body |-> body,
     headers |-> insert(insert(HashMap_new, "Content-Type", "text/plain"),
                        "Content-Length", to_string(Len(body)))]

\* Response::add_header
add_header(resp, key, value) == [resp EXCEPT !.headers = insert(resp.headers, key, value)]

\* The orders in which `for (k, v) in &self.headers` may visit a map.
iteration_orders(h) ==
    {o \in [1..Cardinality(DOMAIN h) -> DOMAIN h] :
        \A i, j \in 1..Cardinality(DOMAIN h) : o[i] = o[j] => i = j}

RECURSIVE header_lines(_, _, _)
header_lines(h, order, i) ==
    IF i > Len(order) THEN ""
    ELSE order[i] \o ": " \o h[order[i]] \o "\r\n" \o header_lines(h, order, i + 1)

\* Response::send with a slip: the empty line after the headers is left out.
response_bytes_no_empty_line(resp, order) ==
    "HTTP/1.1 " \o resp.status_code \o "\r\n"
        \o header_lines(resp.headers, order, 1) \o resp.body

\* The bytes Response::send hands to write_all, for one iteration order.
response_bytes(resp, order) ==
    "HTTP/1.1 " \o resp.status_code \o "\r\n"
        \o header_lines(resp.headers, order, 1) \o "\r\n" \o resp.body

(***************************************************************************)
(* The handlers that touch no file, and dispatch                           *)
(***************************************************************************)

\* What a handler call comes to: a Response, or a panic of the thread.
Returns(resp) == [panic |-> FALSE, resp |-> resp]
Panics == [panic |-> TRUE, resp |-> Response_new("", "")]

handle_root(req) == Returns(Response_new("200 OK", ""))

\* handle_not_found with a slip: the unknown route is answered like the root.
handle_not_found_as_root == Returns(Response_new("200 OK", ""))

handle_not_found == Returns(Response_new("404 Not Found", ""))

\* req.path.get(1) is the SECOND segment; unwrap() panics when there is none.
handle_echo(req) ==
    IF Len(req.path) < 1 THEN Returns(Response_new("400 Bad Request", ""))
    ELSE IF Len(req.path) < 2 THEN Panics
    ELSE Returns(Response_new("200 OK", req.path[2]))

\* The values user_agent can take: any entry find may yield, else "Unknown".
handle_user_agent(req) ==
    LET found == find_ignore_case(req.headers, "User-Agent")
    IN  {Returns(Response_new("200 OK", v)) : v \in (IF found = {} THEN {"Unknown"} ELSE found)}

\* The routing key of dispatch: req.path.get(0), or "" for an empty path.
route(req) == IF Len(req.path) >= 1 THEN req.path[1] ELSE ""

\* The request as line 251-254 reads it.
connection_close(req) == get(req.headers, "Connection") = <<"close">>

(***************************************************************************)
(* The filesystem under base_path                                          *)
(***************************************************************************)

\* Names under base_path that are directories.
Directories == {"."}

ERR_NOT_FOUND == "Os { code: 2, kind: NotFound, message: \"No such file or directory\" }"
ERR_IS_A_DIRECTORY == "Os { code: 21, kind: IsADirectory, message: \"Is a directory\" }"
ERR_INVALID_DATA == "Custom { kind: InvalidData, error: \"stream did not contain valid UTF-8\" }"

\* read_file_content: Ok(contents) is <<TRUE, contents>>, Err(e) is <<FALSE, debug of e>>.
read_file_content(fs, name) ==
    IF name \in Directories THEN <<FALSE, ERR_IS_A_DIRECTORY>>
    ELSE IF name \notin DOMAIN fs THEN <<FALSE, ERR_NOT_FOUND>>
    ELSE IF ~is_utf8(fs[name]) THEN <<FALSE, ERR_INVALID_DATA>>
    ELSE <<TRUE, fs[name]>>

\* File::write with a slip: the file is opened for appending.
write_at_end(old, content) == old \o content

\* File::write of content at offset 0 of a file that holds old.
write_at_start(old, content) ==
    IF Len(content) >= Len(old) THEN content
    ELSE content \o From(old, Len(content) + 1)

\* The GET arm of handle_file, for a path with a second segment.
handle_file_get(fs, req) ==
    LET r == read_file_content(fs, req.path[2])
    IN  IF r[1]
        THEN add_header(Response_new("200 OK", r[2]), "Content-Type", "application/octet-stream")
        ELSE Response_new("400 Bad Request", r[2])

(***************************************************************************)
(* Bounds and the peers' inputs                                            *)
(***************************************************************************)

\* Connections the peers may open.
MaxConns == 2

\* Messages a peer may send on the connection of ConnSpec.
MaxSends == 2

\* Messages a peer may send on each connection of Spec.
MaxSendsEach == 1

Conns == 1..MaxConns

\* What a peer may send in one piece: whole requests, and requests cut short.
Requests ==
    {"GET / HTTP/1.1\r\n\r\n",
     "GET /echo/abc HTTP/1.1\r\n\r\n",
     "GET /echo HTTP/1.1\r\n\r\n",
     "GET / HTTP/1.1\r\nConnection: close\r\n\r\n",
     "GET / HTTP/1.1\r\nconnection: close\r\n\r\n",
     "GET /echo HTTP/1.1\r\nConnection: close\r\n\r\n",
     "GET /user-agent HTTP/1.1\r\nuser-agent: X\r\n\r\n",
     "POST /files/f HTTP/1.1\r\nContent-Length: 2\r\n\r\nhi",
     "POST /files/f HTTP/1.1\r\nContent-Length: 1\r\n\r\n~",
     "POST /files/f HTTP/1.1\r\nContent-Length: 2\r\n\r\nh",
     "GET /files/f HTTP/1.1\r\n\r\n",
     "PUT / HTTP/1.1\r\n\r\n",
     "DELETE /files/f HTTP/1.1\r\n\r\n",
     "GET /nope/f HTTP/1.1\r\n\r\n",
     "GET / HTTP/1.1\r\n",
     "GET /\r\n"}

\* The fewer messages of the specification with several connections.
FewRequests ==
    {"GET /echo/abc HTTP/1.1\r\n\r\n",
     "GET /echo HTTP/1.1\r\n\r\n",
     "GET /\r\n",
     "POST /files/f HTTP/1.1\r\nContent-Length: 2\r\n\r\nhi",
     "POST /files/f HTTP/1.1\r\nContent-Length: 1\r\n\r\nx",
     "POST /files/f HTTP/1.1\r\nContent-Length: 1000000000000000000\r\n\r\n"}

\* The messages that exercise the parser: start lines, repeated slashes,
\* repeated header names, Content-Length values, lines without a separator.
ParseRequests ==
    {"GET / HTTP/1.1\r\n\r\n",
     "GET // HTTP/1.1\r\n\r\n",
     "GET //echo//abc/ HTTP/1.1\r\n\r\n",
     "GET /echo/a/b HTTP/1.1 x\r\n\r\n",
     "GET /\r\n\r\n",
     "\r\n",
     "GET /user-agent HTTP/1.1\r\nUser-Agent: A\r\nUser-Agent: B\r\n\r\n",
     "GET /user-agent HTTP/1.1\r\nUser-Agent: A\r\nuser-agent: B\r\n\r\n",
     "POST /files/f HTTP/1.1\r\nContent-Length: 1\r\nContent-Length: 2\r\n\r\nhi",
     "POST /files/f HTTP/1.1\r\nContent-Length: 1\r\ncontent-length: 2\r\n\r\nhi",
     "POST /files/f HTTP/1.1\r\nContent-Length: 2\r\n\r\nhi",
     "POST /files/f HTTP/1.1\r\nContent-Length: -1\r\n\r\nhi",
     "POST /files/f HTTP/1.1\r\nContent-Length: x\r\n\r\n",
     "POST /files/f HTTP/1.1\r\n\r\n",
     "GET /echo/abc HTTP/1.1\r\nNoSeparator\r\nHost:x\r\n\r\n"}

\* The messages that make every kind of response: a reflected segment, a
\* reflected header, a file written and read back, the errors.
RespRequests ==
    {"GET /echo/abc HTTP/1.1\r\n\r\n",
     "GET /user-agent HTTP/1.1\r\nUser-Agent: X\r\n\r\n",
     "POST /files/f HTTP/1.1\r\nContent-Length: 2\r\n\r\nhi",
     "POST /files/f HTTP/1.1\r\nContent-Length: 1\r\n\r\n~",
     "GET /files/f HTTP/1.1\r\n\r\n",
     "GET /files/g HTTP/1.1\r\n\r\n",
     "DELETE /files/f HTTP/1.1\r\n\r\n"}

\* Whole requests, and a request cut in its start line, in its header block
\* and in its body.
LiveRequests ==
    {"GET / HTTP/1.1\r\n\r\n",
     "GET /echo HTTP/1.1\r\n\r\n",
     "GET /ec",
     "GET / HTTP/1.1\r\nHost: x\r\n",
     "POST /files/f HTTP/1.1\r\nContent-Length: 2\r\n\r\nh"}

NoRequest == [method |-> "", path |-> << >>, version |-> "", headers |-> HashMap_new, body |-> ""]
NoResponse == Response_new("", "")

(***************************************************************************)
(* State                                                                   *)
(***************************************************************************)

VARIABLES
    alive,       \* the process runs (and with it the accept loop of start_server)
    pc,          \* per connection: where its thread is ("aborted": it ended the process)
    sock,        \* per connection: bytes received and not yet read by the server
    peerClosed,  \* per connection: the peer has shut its end; reads return 0 once sock is empty
    nsent,       \* per connection: messages the peer has sent
    rbuf,        \* per connection: bytes the BufReader of the running from_stream call holds
    eofSeen,     \* per connection: a read of the running from_stream call returned 0
    head,        \* per connection: method, path, version, headers once the header block is read
    clen,        \* per connection: content_length of the running from_stream call
    headEnd,     \* per connection: how the header loop of that call was left
    req,         \* per connection: the Request from_stream returned last
    resp,        \* per connection: the Response dispatch returned last
    out,         \* per connection: what Response::send wrote, one entry per call
    nreq,        \* per connection: number of requests from_stream has returned
    nfail,       \* per connection: number of from_stream calls that returned None
    overread,    \* per connection: bytes taken from the socket by a BufReader and dropped with it
    files,       \* the regular files under base_path: name -> content
    headBytes,   \* per connection: the lines the running from_stream call has read
    bodyBuf,     \* per connection: body_buf as read_exact filled it last
    recv,        \* per connection: every byte the peer has sent, in order
    used,        \* per connection: the bytes of the requests from_stream has returned
    posted       \* name -> the body_buf and the body of the POST that wrote the file last

vars == <<alive, pc, sock, peerClosed, nsent, rbuf, eofSeen, head, clen, headEnd, req, resp,
          out, nreq, nfail, overread, files, headBytes, bodyBuf, recv, used, posted>>

connVars == <<sock, peerClosed, nsent>>
parseVars == <<rbuf, eofSeen, head, clen, headEnd>>
histVars == <<headBytes, bodyBuf, recv, used, posted>>

Init ==
    /\ alive = TRUE
    /\ pc = [c \in Conns |-> "none"]
    /\ sock = [c \in Conns |-> ""]
    /\ peerClosed = [c \in Conns |-> FALSE]
    /\ nsent = [c \in Conns |-> 0]
    /\ rbuf = [c \in Conns |-> ""]
    /\ eofSeen = [c \in Conns |-> FALSE]
    /\ head = [c \in Conns |-> NoRequest]
    /\ clen = [c \in Conns |-> "0"]
    /\ headEnd = [c \in Conns |-> "blank"]
    /\ req = [c \in Conns |-> NoRequest]
    /\ resp = [c \in Conns |-> NoResponse]
    /\ out = [c \in Conns |-> << >>]
    /\ nreq = [c \in Conns |-> 0]
    /\ nfail = [c \in Conns |-> 0]
    /\ overread = [c \in Conns |-> ""]
    /\ files = HashMap_new
    /\ headBytes = [c \in Conns |-> ""]
    /\ bodyBuf = [c \in Conns |-> ""]
    /\ recv = [c \in Conns |-> ""]
    /\ used = [c \in Conns |-> ""]
    /\ posted = [k \in {} |-> [raw |-> "", body |-> ""]]

\* The thread of connection c has ended and its TcpStream is dropped.
Released(c) == pc[c] \in {"closed", "panicked"}

\* The thread of connection c is inside Request::from_stream.
AwaitingRequest(c) == pc[c] \in {"head", "body"}

(***************************************************************************)
(* The peers                                                               *)
(***************************************************************************)

PeerConnect(c) ==
    /\ pc[c] = "none"
    /\ pc' = [pc EXCEPT ![c] = "queued"]
    /\ UNCHANGED <<alive, connVars, parseVars, req, resp, out, nreq, nfail, overread, files,
                   histVars>>

PeerSend(c, m, max) ==
    /\ pc[c] # "none" /\ ~Released(c) /\ ~peerClosed[c]
    /\ nsent[c] < max
    /\ sock' = [sock EXCEPT ![c] = @ \o m]
    /\ nsent' = [nsent EXCEPT ![c] = @ + 1]
    /\ recv' = [recv EXCEPT ![c] = @ \o m]
    /\ UNCHANGED <<alive, pc, peerClosed, parseVars, req, resp, out, nreq, nfail, overread, files,
                   headBytes, bodyBuf, used, posted>>

PeerClose(c) ==
    /\ pc[c] # "none" /\ ~Released(c) /\ ~peerClosed[c]
    /\ peerClosed' = [peerClosed EXCEPT ![c] = TRUE]
    /\ UNCHANGED <<alive, pc, sock, nsent, parseVars, req, resp, out, nreq, nfail, overread, files,
                   histVars>>

(***************************************************************************)
(* Server::start_server                                                    *)
(***************************************************************************)

\* One turn of `for stream in listener.incoming()`: the thread is spawned and
\* enters handle_connection, whose loop starts a from_stream call.
Accept(c) ==
    /\ alive /\ pc[c] = "queued"
    /\ pc' = [pc EXCEPT ![c] = "head"]
    /\ UNCHANGED <<alive, connVars, parseVars, req, resp, out, nreq, nfail, overread, files,
                   histVars>>

(***************************************************************************)
(* Request::from_stream, step by step                                      *)
(***************************************************************************)

\* read_exact(body_buf) has its content_length bytes in the BufReader.
body_ready(c) == is_small(clen[c]) /\ Len(rbuf[c]) >= to_int(clen[c])

\* The running from_stream call can go no further without another read.
needs_read(c) ==
    \/ pc[c] = "head" /\ read_head(rbuf[c], eofSeen[c]).st = "more"
    \/ pc[c] = "body" /\ ~body_ready(c) /\ ~eofSeen[c]

\* BufReader::fill_buf: one read of the socket into the (emptied) buffer; it
\* takes whatever has arrived, and returns 0 at end of stream.
FillBuf(c) ==
    /\ alive /\ needs_read(c)
    /\ sock[c] # "" \/ peerClosed[c]
    /\ IF sock[c] # ""
       THEN /\ rbuf' = [rbuf EXCEPT ![c] = @ \o sock[c]]
            /\ sock' = [sock EXCEPT ![c] = ""]
            /\ UNCHANGED eofSeen
       ELSE /\ eofSeen' = [eofSeen EXCEPT ![c] = TRUE]
            /\ UNCHANGED <<rbuf, sock>>
    /\ UNCHANGED <<alive, pc, peerClosed, nsent, head, clen, headEnd, req, resp, out, nreq,
                   nfail, overread, files, histVars>>

\* OnNone with a slip: a 400 response is written before the break.
OnNone_answers(c) ==
    /\ pc' = [pc EXCEPT ![c] = "closed"]
    /\ nfail' = [nfail EXCEPT ![c] = @ + 1]
    /\ \E order \in iteration_orders(Response_new("400 Bad Request", "").headers) :
         out' = [out EXCEPT ![c] = Append(@,
                    [n |-> nreq[c],
                     bytes |-> response_bytes(Response_new("400 Bad Request", ""), order)])]

\* OnNone with a slip: the loop goes on to another from_stream call (the
\* failures are counted modulo 2).
OnNone_retries(c) ==
    /\ pc' = [pc EXCEPT ![c] = "head"]
    /\ nfail' = [nfail EXCEPT ![c] = (@ + 1) % 2]
    /\ UNCHANGED out

\* handle_connection, lines 264-267: from_stream returned None.
OnNone(c) ==
    /\ pc' = [pc EXCEPT ![c] = "closed"]
    /\ nfail' = [nfail EXCEPT ![c] = @ + 1]
    /\ UNCHANGED out

\* vec![0; n] (line 60): "panic" on capacity overflow (more than isize::MAX
\* bytes), "abort" when the allocator fails (handle_alloc_error ends the
\* process, every thread with it), else "ok".
alloc(n) ==
    IF ~dec_le(n, ISIZE_MAX) THEN "panic"
    ELSE IF dec_le(ADDRESS_SPACE, n) THEN "abort"
    ELSE "ok"

\* Lines 24-60: the start line and the headers are read, content_length is
\* computed and body_buf allocated.
ReadHead(c) ==
    /\ alive /\ pc[c] = "head"
    /\ LET h == read_head(rbuf[c], eofSeen[c])
       IN  /\ h.st # "more"
           /\ IF h.st = "none"
              THEN /\ OnNone(c)
                   /\ UNCHANGED <<alive, rbuf, head, clen, headEnd, headBytes>>
              ELSE \E n \in content_lengths(h.headers) :
                     /\ alive' = (alloc(n) # "abort")
                     /\ pc' = [pc EXCEPT ![c] = IF alloc(n) = "ok" THEN "body"
                                                 ELSE IF alloc(n) = "panic" THEN "panicked"
                                                 ELSE "aborted"]
                     /\ head' = [head EXCEPT ![c] =
                                   [method |-> h.method, path |-> h.path,
                                    version |-> h.version, headers |-> h.headers,
                                    body |-> ""]]
                     /\ clen' = [clen EXCEPT ![c] = n]
                     /\ headEnd' = [headEnd EXCEPT ![c] = h.ended]
                     /\ rbuf' = [rbuf EXCEPT ![c] = h.rest]
                     /\ headBytes' = [headBytes EXCEPT ![c] =
                                        SubSeq(rbuf[c], 1, Len(rbuf[c]) - Len(h.rest))]
                     /\ UNCHANGED <<out, nfail>>
    /\ UNCHANGED <<connVars, eofSeen, req, resp, nreq, overread, files, bodyBuf, recv, used,
                   posted>>

\* Lines 61-71: read_exact and the Request returned.  The BufReader is dropped
\* at the return, with whatever it still holds.
ReadBody(c) ==
    /\ alive /\ pc[c] = "body"
    /\ body_ready(c) \/ eofSeen[c]
    /\ IF body_ready(c)
       THEN /\ req' = [req EXCEPT ![c] =
                        [head[c] EXCEPT !.body =
                            from_utf8_lossy(SubSeq(rbuf[c], 1, to_int(clen[c])))]]
            /\ nreq' = [nreq EXCEPT ![c] = @ + 1]
            /\ overread' = [overread EXCEPT ![c] = @ \o From(rbuf[c], to_int(clen[c]) + 1)]
            /\ pc' = [pc EXCEPT ![c] = "dispatch"]
            /\ bodyBuf' = [bodyBuf EXCEPT ![c] = SubSeq(rbuf[c], 1, to_int(clen[c]))]
            /\ used' = [used EXCEPT ![c] =
                          @ \o headBytes[c] \o SubSeq(rbuf[c], 1, to_int(clen[c]))]
            /\ UNCHANGED <<out, nfail>>
       ELSE /\ OnNone(c)
            /\ UNCHANGED <<req, nreq, overread, bodyBuf, used>>
    /\ rbuf' = [rbuf EXCEPT ![c] = ""]
    /\ UNCHANGED <<alive, connVars, eofSeen, head, clen, headEnd, resp, files, headBytes, recv,
                   posted>>

(***************************************************************************)
(* Server::dispatch and the handlers                                       *)
(***************************************************************************)

\* The thread panics: it unwinds, its TcpStream is dropped, no other thread
\* is touched (the JoinHandle was dropped at the spawn).
Panic(c) ==
    /\ pc' = [pc EXCEPT ![c] = "panicked"]
    /\ UNCHANGED <<alive, resp, files>>

\* dispatch for the routes that touch no file.
dispatch_pure(r) ==
    CASE route(r) = "" -> {handle_root(r)}
      [] route(r) = "echo" -> {handle_echo(r)}
      [] route(r) = "user-agent" -> handle_user_agent(r)
      [] OTHER -> {handle_not_found}

\* Lines 257 and 235-243, with the handlers; for POST /files/<name> up to and
\* including File::create (line 121), which creates or truncates the file.
Dispatch(c) ==
    /\ alive /\ pc[c] = "dispatch"
    /\ LET r == req[c]
       IN  IF route(r) # "files"
           THEN \E res \in dispatch_pure(r) :
                  IF res.panic THEN Panic(c)
                  ELSE /\ resp' = [resp EXCEPT ![c] = res.resp]
                       /\ pc' = [pc EXCEPT ![c] = "send"]
                       /\ UNCHANGED <<alive, files>>
           ELSE IF r.method \notin {"GET", "POST"}
           THEN /\ resp' = [resp EXCEPT ![c] = Response_new("405 Method Not Allowed", "")]
                /\ pc' = [pc EXCEPT ![c] = "send"]
                /\ UNCHANGED <<alive, files>>
           ELSE IF Len(r.path) < 2
           THEN Panic(c)
           ELSE IF r.method = "GET"
           THEN /\ resp' = [resp EXCEPT ![c] = handle_file_get(files, r)]
                /\ pc' = [pc EXCEPT ![c] = "send"]
                /\ UNCHANGED <<alive, files>>
           ELSE IF r.path[2] \in Directories
           THEN /\ resp' = [resp EXCEPT ![c] = Response_new("400 Bad Request", ERR_IS_A_DIRECTORY)]
                /\ pc' = [pc EXCEPT ![c] = "send"]
                /\ UNCHANGED <<alive, files>>
           ELSE /\ files' = insert(files, r.path[2], "")
                /\ pc' = [pc EXCEPT ![c] = "write"]
                /\ UNCHANGED <<alive, resp>>
    /\ UNCHANGED <<connVars, parseVars, req, out, nreq, nfail, overread, histVars>>

\* create_file, line 122: the body is written at the start of the file, and
\* handle_file answers 201.
WriteFile(c) ==
    /\ alive /\ pc[c] = "write"
    /\ files' = insert(files, req[c].path[2], write_at_start(files[req[c].path[2]], req[c].body))
    /\ resp' = [resp EXCEPT ![c] = Response_new("201 Created", "")]
    /\ pc' = [pc EXCEPT ![c] = "send"]
    /\ posted' = insert(posted, req[c].path[2], [raw |-> bodyBuf[c], body |-> req[c].body])
    /\ UNCHANGED <<alive, connVars, parseVars, req, out, nreq, nfail, overread, headBytes,
                   bodyBuf, recv, used>>

(***************************************************************************)
(* Response::send and the end of the loop body                             *)
(***************************************************************************)

\* Lines 261-263 and the loop: break on connection_close, else the next
\* from_stream call, with a new BufReader.
after_send(c) == IF connection_close(req[c]) THEN "closed" ELSE "head"

\* Lines 259-263.  write_all's result is discarded.
Send(c) ==
    /\ alive /\ pc[c] = "send"
    /\ \E order \in iteration_orders(resp[c].headers) :
         out' = [out EXCEPT ![c] = Append(@, [n |-> nreq[c],
                                              bytes |-> response_bytes(resp[c], order)])]
    /\ pc' = [pc EXCEPT ![c] = after_send(c)]
    /\ eofSeen' = [eofSeen EXCEPT ![c] = FALSE]
    /\ UNCHANGED <<alive, connVars, rbuf, head, clen, headEnd, req, resp, nreq, nfail, overread,
                   files, histVars>>

(***************************************************************************)
(* Specifications                                                          *)
(***************************************************************************)

\* The whole server: several connections, each on its own thread.
Next ==
    \E c \in Conns :
        \/ PeerConnect(c)
        \/ \E m \in FewRequests : PeerSend(c, m, MaxSendsEach)
        \/ PeerClose(c)
        \/ Accept(c)
        \/ FillBuf(c)
        \/ ReadHead(c)
        \/ ReadBody(c)
        \/ Dispatch(c)
        \/ WriteFile(c)
        \/ Send(c)

Spec == Init /\ [][Next]_vars

\* One connection, and every message of Requests.
NextConn ==
    \/ PeerConnect(1)
    \/ \E m \in Requests : PeerSend(1, m, MaxSends)
    \/ PeerClose(1)
    \/ Accept(1)
    \/ FillBuf(1)
    \/ ReadHead(1)
    \/ ReadBody(1)
    \/ Dispatch(1)
    \/ WriteFile(1)
    \/ Send(1)

ConnSpec == Init /\ [][NextConn]_vars

\* One connection, and every message of ParseRequests.
NextParse ==
    \/ PeerConnect(1)
    \/ \E m \in ParseRequests : PeerSend(1, m, MaxSendsEach)
    \/ PeerClose(1)
    \/ Accept(1)
    \/ FillBuf(1)
    \/ ReadHead(1)
    \/ ReadBody(1)
    \/ Dispatch(1)
    \/ WriteFile(1)
    \/ Send(1)

ParseSpec == Init /\ [][NextParse]_vars

\* One connection, and every message of RespRequests.
NextResp ==
    \/ PeerConnect(1)
    \/ \E m \in RespRequests : PeerSend(1, m, MaxSends)
    \/ PeerClose(1)
    \/ Accept(1)
    \/ FillBuf(1)
    \/ ReadHead(1)
    \/ ReadBody(1)
    \/ Dispatch(1)
    \/ WriteFile(1)
    \/ Send(1)

RespSpec == Init /\ [][NextResp]_vars

\* A step of the thread of connection c.
ThreadStep(c) ==
    \/ FillBuf(c)
    \/ ReadHead(c)
    \/ ReadBody(c)
    \/ Dispatch(c)
    \/ WriteFile(c)
    \/ Send(c)

\* ENABLED <<ThreadStep(c)>>_vars, from the guards of the steps: the thread
\* runs unless it is blocked in a read of a socket that holds nothing and
\* that the peer has not closed.
ThreadEnabled(c) ==
    /\ alive
    /\ \/ pc[c] \in {"dispatch", "write", "send"}
       \/ pc[c] \in {"head", "body"} /\ (needs_read(c) => (sock[c] # "" \/ peerClosed[c]))

\* One connection whose peer sends whole requests and parts of requests.
NextLive ==
    \/ PeerConnect(1)
    \/ \E m \in LiveRequests : PeerSend(1, m, MaxSends)
    \/ PeerClose(1)
    \/ Accept(1)
    \/ ThreadStep(1)

LiveSpec == Init /\ [][NextLive]_vars

\* LiveSpec with fair scheduling: a queued connection is accepted, and the
\* thread of the connection is not left for ever at a step it can take
\* (weak fairness of ThreadStep(1), with ENABLED written out).
FairLiveSpec ==
    /\ LiveSpec
    /\ WF_vars(Accept(1))
    /\ ([]<>~ThreadEnabled(1) \/ []<><<ThreadStep(1)>>_vars)

(***************************************************************************)
(* Properties                                                              *)
(***************************************************************************)

\* The thread of c holds a Request that from_stream returned and has not yet
\* sent its response.
Answering(c) == pc[c] \in {"dispatch", "write", "send"}

\* C1: once a request with `Connection: close` has been parsed on a
\* connection, its thread only goes on to send that request's response and
\* then is Closed, with the response written last: it is never back in
\* from_stream and never ends otherwise.
C1_CloseAfterResponse ==
    \A c \in Conns :
        (nreq[c] > 0 /\ connection_close(req[c])) =>
            /\ Answering(c) \/ pc[c] = "closed"
            /\ pc[c] = "closed" =>
                 /\ Len(out[c]) = nreq[c]
                 /\ out[c][Len(out[c])].n = nreq[c]

\* C2: requests of one connection are handled strictly one after the other:
\* no byte past the end of request N has been taken from the socket when
\* from_stream returns request N, and the responses are those of requests
\* 1, 2, ... in that order, none ahead of its request.
C2_StrictlySequential ==
    \A c \in Conns :
        /\ overread[c] = ""
        /\ Len(out[c]) <= nreq[c]
        /\ \A i \in 1..Len(out[c]) : out[c][i].n = i

\* C3: every request from_stream returns gets exactly one response: while the
\* request is being answered all earlier ones have theirs, and whenever the
\* thread is anywhere else there are as many responses as requests.
C3_OneResponsePerRequest ==
    \A c \in Conns :
        /\ Answering(c) => Len(out[c]) = nreq[c] - 1
        /\ ~Answering(c) => Len(out[c]) = nreq[c]

\* C4: a from_stream call that returns None writes nothing to the peer and
\* leaves the connection Closed, and nothing is written to a Closed
\* connection afterwards.
C4_NoResponseOnParseFailure ==
    [][\A c \in Conns :
          /\ nfail'[c] # nfail[c] => (out'[c] = out[c] /\ pc'[c] = "closed")
          /\ pc[c] = "closed" => (out'[c] = out[c] /\ pc'[c] = "closed")]_vars

\* C4, its case: a request was answered, the next from_stream call failed,
\* and the connection is Closed with the one response on it.
C4_Witness ==
    \E c \in Conns :
        pc[c] = "closed" /\ nfail[c] = 1 /\ nreq[c] = 1 /\ Len(out[c]) = 1

\* C5: a connection is released only because its last request said
\* `Connection: close` (and was answered) or because from_stream failed
\* (malformed request, or end of stream); otherwise its thread is still there.
C5_ReleasedOnlyForThreeReasons ==
    \A c \in Conns :
        Released(c) =>
            /\ pc[c] = "closed"
            /\ \/ nfail[c] > 0
               \/ nreq[c] > 0 /\ connection_close(req[c]) /\ Len(out[c]) = nreq[c]

\* What belongs to the thread and the socket of connection c.
conn_state(c) ==
    <<pc[c], sock[c], peerClosed[c], rbuf[c], eofSeen[c], head[c], clen[c], headEnd[c],
      req[c], resp[c], out[c], nreq[c], nfail[c], overread[c], headBytes[c], bodyBuf[c],
      recv[c], used[c]>>

\* C6: whatever the thread of one connection does, a failure included, the
\* process and its accept loop go on and every other connection is as it was.
C6_FailureIsolated ==
    [][\A c \in Conns :
          (alive /\ pc'[c] # pc[c]) =>
              /\ alive'
              /\ \A d \in Conns \ {c} : conn_state(d)' = conn_state(d)]_vars

RECURSIVE lowercase(_)
lowercase(s) ==
    IF Len(s) = 0 THEN ""
    ELSE to_ascii_lowercase(Char(s, 1)) \o lowercase(From(s, 2))

\* The header map with the name k written as k2.
respelled(h, k, k2) ==
    [j \in ((DOMAIN h) \ {k}) \cup {k2} |-> IF j = k2 THEN h[k] ELSE h[j]]

\* The spellings of header names tried against the one received.
Spellings == {"Connection", "User-Agent", "Content-Length"}

\* C7: for a request from_stream returned, writing one of its header names
\* in another letter case (lower case, or the usual capitals) changes neither
\* content_length, nor the response of a route that touches no file, nor the
\* decision to close.
C7_HeaderNamesIgnoreCase ==
    \A c \in Conns :
        pc[c] = "dispatch" =>
            \A k \in DOMAIN req[c].headers :
                \A k2 \in ({lowercase(k)} \cup {x \in Spellings : eq_ignore_ascii_case(x, k)})
                            \ DOMAIN req[c].headers :
                    LET h2 == respelled(req[c].headers, k, k2)
                        r2 == [req[c] EXCEPT !.headers = h2]
                    IN  /\ content_lengths(h2) = content_lengths(req[c].headers)
                        /\ route(req[c]) # "files" => dispatch_pure(r2) = dispatch_pure(req[c])
                        /\ connection_close(r2) = connection_close(req[c])

\* C8: a Request that from_stream returned with a Content-Length header that
\* parses as n has a body of length n.
C8_BodyLengthIsContentLength ==
    \A c \in Conns :
        Answering(c) =>
            \A v \in find_ignore_case(req[c].headers, "Content-Length") :
                (parse_usize(v) # << >> /\ is_small(parse_usize(v)[1])) =>
                    Len(req[c].body) = to_int(parse_usize(v)[1])

\* C9: from_stream returns a Request, which is then dispatched and answered,
\* only when the header loop was left at an empty line, never when the stream
\* ended first.
C9_HeadersEndAtEmptyLine ==
    \A c \in Conns :
        Answering(c) => headEnd[c] = "blank"

\* A request of the routes `echo` or `files` (GET or POST).
segment_route(r) ==
    \/ route(r) = "echo"
    \/ route(r) = "files" /\ r.method \in {"GET", "POST"}

\* C10: once dispatch is through with a request of the routes `echo` or
\* `files` (GET or POST), the response is 400 Bad Request when the path has
\* no second segment, and for `echo` with a second segment it is 200 OK with
\* that segment as body.
C10_MissingSegmentIs400 ==
    \A c \in Conns :
        (nreq[c] > 0 /\ segment_route(req[c]) /\ pc[c] \notin {"dispatch", "write"}) =>
            /\ Len(req[c].path) < 2 =>
                 /\ pc[c] # "panicked"
                 /\ resp[c].status_code = "400 Bad Request"
            /\ (route(req[c]) = "echo" /\ Len(req[c].path) >= 2) =>
                 /\ resp[c].status_code = "200 OK"
                 /\ resp[c].body = req[c].path[2]

(***************************************************************************)
(* A response on the wire, read back as a generic HTTP message             *)
(***************************************************************************)

\* The pieces of s between occurrences of CRLF.
RECURSIVE crlf_lines(_)
crlf_lines(s) ==
    LET i == find(s, "\r\n")
    IN  IF i = 0 THEN <<s>>
        ELSE <<SubSeq(s, 1, i - 1)>> \o crlf_lines(From(s, i + 2))

\* Every line is `name: value`.
RECURSIVE well_formed_fields(_)
well_formed_fields(lines) ==
    lines = << >> \/ (split_once(Head(lines), ": ") # << >> /\ well_formed_fields(Tail(lines)))

\* The map of the `name: value` lines.
RECURSIVE field_map(_)
field_map(lines) ==
    IF lines = << >> THEN HashMap_new
    ELSE LET kv == split_once(lines[Len(lines)], ": ")
         IN  insert(field_map(SubSeq(lines, 1, Len(lines) - 1)), kv[1], kv[2])

\* A message: the start line, the `name: value` lines up to the empty line,
\* then everything that follows (after) and its first Content-Length bytes
\* (body).  ok is FALSE when the bytes have no such shape.
parse_message(b) ==
    LET e == find(b, "\r\n\r\n")
        lines == crlf_lines(SubSeq(b, 1, e - 1))
        fields == field_map(Tail(lines))
        n == IF "Content-Length" \in DOMAIN fields
             THEN parse_usize(fields["Content-Length"]) ELSE << >>
        after == From(b, e + 4)
        shaped == e > 0 /\ well_formed_fields(Tail(lines))
        framed == shaped /\ n # << >> /\ is_small(n[1]) /\ to_int(n[1]) <= Len(after)
    IN  [ok |-> framed,
         start_line |-> IF shaped THEN lines[1] ELSE "",
         headers |-> IF shaped THEN fields ELSE HashMap_new,
         after |-> IF shaped THEN after ELSE "",
         body |-> IF framed THEN SubSeq(after, 1, to_int(n[1])) ELSE ""]

\* C11: every response written to a connection has, on the wire, a
\* Content-Length header whose value is the decimal number of bytes that
\* follow the empty line, whichever handler built it and whichever header it
\* overrode.
C11_ContentLengthIsBodyLength ==
    \A c \in Conns : \A i \in 1..Len(out[c]) :
        LET m == parse_message(out[c][i].bytes)
        IN  /\ m.ok
            /\ get(m.headers, "Content-Length") = <<to_string(Len(m.after))>>

\* A response with a body and with an overridden header has been written.
C11_Witness ==
    \E i \in 1..Len(out[1]) :
        LET m == parse_message(out[1][i].bytes)
        IN  /\ m.after = "hi"
            /\ get(m.headers, "Content-Type") = <<"application/octet-stream">>

\* C15: the bytes Response::send writes start with `HTTP/1.1 ` and, read back
\* as a generic message, give the status line, the header map and the body of
\* the Response that was sent, with Content-Length the length of that body.
C15_SendRoundTrip ==
    [][\A c \in Conns :
         (pc[c] = "send" /\ Len(out'[c]) = Len(out[c]) + 1) =>
            LET b == out'[c][Len(out'[c])].bytes
                m == parse_message(b)
            IN  /\ SubSeq(b, 1, 9) = "HTTP/1.1 "
                /\ m.ok
                /\ m.start_line = "HTTP/1.1 " \o resp[c].status_code
                /\ m.headers = resp[c].headers
                /\ m.body = resp[c].body
                /\ m.after = resp[c].body
                /\ get(m.headers, "Content-Length") = <<to_string(Len(resp[c].body))>>]_vars

\* Two responses have been sent on a connection, the last with a body.
C15_Witness ==
    /\ Len(out[1]) = 2
    /\ parse_message(out[1][2].bytes).start_line = "HTTP/1.1 200 OK"
    /\ parse_message(out[1][2].bytes).body = "abc"

\* A response with the given status, no body and the headers of Response::new.
empty_response(status_code) ==
    [status_code |-> status_code,
     body |-> "",
     headers |-> [k \in {"Content-Type", "Content-Length"} |->
                    IF k = "Content-Type" THEN "text/plain" ELSE "0"]]

\* C12: dispatch routes on the first path segment: with an empty path the
\* response is `200 OK` with empty body whatever the method; with `files` and
\* a method other than GET and POST it is `405 Method Not Allowed` with empty
\* body; with a first segment other than echo, user-agent and files it is
\* `404 Not Found` with empty body; and in none of the three is a file
\* created, truncated or written.
C12_ClosedRouting ==
    [][\A c \in Conns :
         (pc[c] = "dispatch" /\ pc'[c] # pc[c]) =>
            LET p == req[c].path
            IN  /\ p = << >> =>
                     /\ pc'[c] = "send" /\ files' = files
                     /\ resp'[c] = empty_response("200 OK")
                /\ (p # << >> /\ p[1] = "files" /\ req[c].method \notin {"GET", "POST"}) =>
                     /\ pc'[c] = "send" /\ files' = files
                     /\ resp'[c] = empty_response("405 Method Not Allowed")
                /\ (p # << >> /\ p[1] \notin {"echo", "user-agent", "files"}) =>
                     /\ pc'[c] = "send" /\ files' = files
                     /\ resp'[c] = empty_response("404 Not Found")]_vars

\* With a file on disk, a DELETE on it has been dispatched and answered 405.
C12_Witness ==
    /\ pc[1] = "send" /\ req[1].method = "DELETE" /\ req[1].path = <<"files", "f">>
    /\ resp[1].status_code = "405 Method Not Allowed"
    /\ "f" \in DOMAIN files /\ files["f"] # ""

\* C13: a GET /files/<name> that follows a POST /files/<name> answered
\* `201 Created`, with no other POST to the name in between, is answered
\* `200 OK` with exactly the body bytes of that POST and with
\* `Content-Type: application/octet-stream`; a GET for a name that does not
\* exist is answered `400 Bad Request` with a non-empty description.
C13_GetReturnsPostedBody ==
    (pc[1] = "send" /\ req[1].method = "GET" /\ Len(req[1].path) >= 2
        /\ req[1].path[1] = "files") =>
       LET name == req[1].path[2]
       IN  /\ name \in DOMAIN posted =>
                /\ resp[1].status_code = "200 OK"
                /\ resp[1].body = posted[name].raw
                /\ get(resp[1].headers, "Content-Type") = <<"application/octet-stream">>
           /\ (name \notin DOMAIN files /\ name \notin Directories) =>
                /\ resp[1].status_code = "400 Bad Request"
                /\ resp[1].body # ""

\* The last request of connection c was a POST to /files/f and has been
\* answered `201 Created`.
posted_f(c) ==
    /\ nreq[c] > 0 /\ ~Answering(c) /\ Len(out[c]) = nreq[c]
    /\ req[c].method = "POST" /\ req[c].path = <<"files", "f">>
    /\ resp[c].status_code = "201 Created"

\* Two connections have posted to f, and no thread is inside a request.
both_posted_f ==
    /\ \A c \in Conns : ~Answering(c)
    /\ \E c, d \in Conns : c # d /\ posted_f(c) /\ posted_f(d)

\* C14: when two connections have posted to the same name and both were
\* answered `201 Created`, the file holds exactly the body of the POST whose
\* write happened last.
C14_LastWriteWins ==
    both_posted_f => files["f"] = posted["f"].body

\* C14, amended: the file starts with the complete body of the POST whose
\* write happened last; what follows, if anything, is the end of the other
\* body, when that one is longer and was written after both files were
\* created.
C14_LastWriteIsPrefix ==
    both_posted_f =>
        \E c \in Conns :
            /\ posted_f(c)
            /\ files["f"] = IF Len(posted["f"].body) >= Len(req[c].body)
                            THEN posted["f"].body
                            ELSE posted["f"].body \o From(req[c].body, Len(posted["f"].body) + 1)

\* Both POSTs are answered and the file holds a byte of each body.
C14_Witness ==
    /\ both_posted_f
    /\ posted["f"].body = "x"
    /\ files["f"] = "xi"

\* The value of the last of the lines `n: value` whose name n equals name
\* without regard to case, <<value>>; << >> when there is none.
RECURSIVE last_field_of(_, _)
last_field_of(lines, name) ==
    IF lines = << >> THEN << >>
    ELSE LET kv == split_once(lines[Len(lines)], ": ")
         IN  IF kv # << >> /\ eq_ignore_ascii_case(kv[1], name) THEN <<kv[2]>>
             ELSE last_field_of(SubSeq(lines, 1, Len(lines) - 1), name)

\* The same, of the header lines of a request as it was received.
last_field(b, name) == last_field_of(Tail(crlf_lines(b)), name)

\* C16: when a header name occurs more than once in a request, in whatever
\* case, the server uses the value of the last occurrence: the body is framed
\* by the last Content-Length and the User-Agent reflected is the last one.
C16_LastOccurrenceWins ==
    \A c \in Conns :
        LET cl == last_field(headBytes[c], "Content-Length")
            ua == last_field(headBytes[c], "User-Agent")
        IN  /\ (pc[c] \in {"body", "dispatch", "write", "send"}
                    /\ cl # << >> /\ parse_usize(cl[1]) # << >>) =>
                 clen[c] = parse_usize(cl[1])[1]
            /\ (pc[c] = "send" /\ req[c].path = <<"user-agent">> /\ ua # << >>) =>
                 resp[c].body = ua[1]

\* The request-target with its slashes collapsed: no leading slash, no
\* trailing slash, one slash for each run of slashes in between.
RECURSIVE collapse(_)
collapse(t) ==
    IF t = "" THEN ""
    ELSE IF Char(t, 1) = "/" THEN collapse(From(t, 2))
    ELSE LET i == find(t, "/")
         IN  IF i = 0 THEN t
             ELSE IF collapse(From(t, i)) = "" THEN SubSeq(t, 1, i - 1)
             ELSE SubSeq(t, 1, i - 1) \o "/" \o collapse(From(t, i))

\* The segments of a path, with one slash between neighbours.
RECURSIVE joined(_)
joined(p) ==
    IF p = << >> THEN ""
    ELSE IF Len(p) = 1 THEN p[1]
    ELSE p[1] \o "/" \o joined(Tail(p))

\* The tokens of the first line of b.
start_line_tokens(b) == split_whitespace(crlf_lines(b)[1])

\* C17: the path of a parsed request is the sequence of the non-empty
\* segments of its request-target, in order: no segment is empty or holds a
\* slash, and joined by single slashes they are the target with leading,
\* trailing and repeated slashes collapsed; and a connection whose first
\* start line has fewer than three tokens never yields a Request.
C17_PathIsNonEmptySegments ==
    \A c \in Conns :
        /\ pc[c] \in {"body", "dispatch", "write", "send"} =>
             LET t == start_line_tokens(headBytes[c])
                 p == head[c].path
             IN  /\ Len(t) >= 3
                 /\ \A i \in 1..Len(p) : p[i] # "" /\ find(p[i], "/") = 0
                 /\ joined(p) = collapse(t[2])
                 /\ collapse(t[2]) = "" => p = << >>
        /\ (find(recv[c], "\r\n") > 0 /\ Len(start_line_tokens(recv[c])) < 3) =>
             /\ nreq[c] = 0
             /\ pc[c] \notin {"body", "dispatch", "write", "send"}

\* A target with leading, repeated and trailing slashes has been parsed.
C17_Witness ==
    /\ pc[1] = "dispatch"
    /\ start_line_tokens(headBytes[1])[2] = "//echo//abc/"
    /\ req[1].path = <<"echo", "abc">>

\* The `name: value` pairs among the header lines of a request as received.
RECURSIVE fields_of(_)
fields_of(lines) ==
    IF lines = << >> \/ Head(lines) = "" THEN {}
    ELSE (IF split_once(Head(lines), ": ") = << >> THEN {} ELSE {split_once(Head(lines), ": ")})
            \cup fields_of(Tail(lines))

header_fields(b) == fields_of(Tail(crlf_lines(b)))

\* The request has no Content-Length that parses as a non-negative integer.
no_content_length(b) ==
    \A kv \in header_fields(b) :
        eq_ignore_ascii_case(kv[1], "Content-Length") => parse_usize(kv[2]) = << >>

\* C18: when Content-Length is absent or is no non-negative integer the body
\* length is 0: the request is returned with an empty body and the call has
\* taken no byte after the header block from the stream; header lines without
\* `: ` are not stored, and a complete header block with such lines and a
\* good start line does not make the call fail.
C18_NoLengthNoBody ==
    [][\A c \in Conns :
         /\ (pc[c] = "body" /\ pc'[c] = "dispatch") =>
              /\ \A k \in DOMAIN req'[c].headers :
                    <<k, req'[c].headers[k]>> \in header_fields(headBytes[c])
              /\ {kv[1] : kv \in header_fields(headBytes[c])} = DOMAIN req'[c].headers
              /\ no_content_length(headBytes[c]) =>
                    /\ clen[c] = "0"
                    /\ req'[c].body = ""
                    /\ bodyBuf'[c] = ""
                    /\ overread'[c] = overread[c]
         /\ (pc[c] = "head" /\ pc'[c] # "head" /\ find(rbuf[c], "\r\n\r\n") > 0
                /\ Len(start_line_tokens(rbuf[c])) >= 3) =>
              pc'[c] # "closed"]_vars

\* C19: no received byte is lost across the calls of from_stream on a
\* connection: while its thread is in the loop, the bytes the peer has sent
\* are the bytes of the requests returned so far, then those of the request
\* being read, then the bytes not yet parsed, in order and with nothing
\* missing; when a call returns a request, all that follows its last byte is
\* still to be read.
C19_NoByteLost ==
    \A c \in Conns :
        /\ pc[c] \in {"head", "body", "dispatch", "write", "send"} =>
             recv[c] = used[c] \o (IF pc[c] = "body" THEN headBytes[c] ELSE "")
                              \o rbuf[c] \o sock[c]
        /\ Answering(c) => recv[c] = used[c] \o sock[c]

\* C20: once the peer has closed its end, whatever part of a request had been
\* received, the thread of the connection eventually ends and the connection
\* is released; it does not loop for ever on the closed stream.
C20_ClosedPeerEndsThread ==
    \A c \in Conns : peerClosed[c] ~> Released(c)

\* The peer closed after a whole request and part of a start line, and the
\* thread has ended.
C20_Witness ==
    /\ peerClosed[1] /\ pc[1] = "closed" /\ nfail[1] = 1 /\ nreq[1] = 1
    /\ recv[1] = "GET / HTTP/1.1\r\n\r\nGET /ec"

====
